---- MODULE Spec2Model ----
(***************************************************************************)
(* A model of the VTSPy client (src/vtspy/VTSPy.py): one VTSClient session *)
(* over one websocket, the token file, the caller threads that invoke the  *)
(* synchronous operations, the listener threads started by                 *)
(* subscribe_to_event, and the host at the other end of the socket.        *)
(*                                                                         *)
(* Every blocking call of the code (instance.recv(), time.sleep()) ends an *)
(* atomic step; instance.send() and what follows a recv() up to the next   *)
(* blocking call are one step.                                             *)
(*                                                                         *)
(* Strings the code computes with (plugin names, request ids) are          *)
(* sequences of characters; f-strings are concatenations.                  *)
(***************************************************************************)
EXTENDS Integers, Sequences, FiniteSets, TLC

\* ------------------------------------------------------------------ bounds
MaxSessions == 2       \* sessions constructed one after the other (same token file)
MaxCalls == 2          \* operations called on one session
DeepCalls == 3         \* the same, in the specification of longer call sequences
MaxInbox == 1          \* frames in flight from the host to the client
MaxListeners == 2      \* listener threads one session starts

\* ------------------------------------------------------------------ inputs
Callers == {"t1", "t2"}            \* threads of the program that call the client
MainThread == {"t1"}
\* the errors of the host: the user denied the token request; the session is not
\* authenticated
TokenRequestDenied == [errorID |-> 50, message |-> "denied"]
RequestRequiresAuthentication == [errorID |-> 8, message |-> "not authenticated"]
RequestIds == {<<>>, <<"r", "1">>}  \* request_id arguments: "" and "r1"
\* the plugin identities of the program: "My P" by "dev" without logo, "Q" by "other"
Identities == <<[name |-> <<"M", "y", " ", "P">>, developer |-> "dev", logo |-> ""],
                [name |-> <<"Q">>, developer |-> "other", logo |-> "png"]>>
\* the program constructs its n-th session with the one, then the other identity
SessionIdentity(n) == Identities[((n - 1) % Len(Identities)) + 1]

\* the keys of self._subscriptions
EventNames == {"TestEvent", "ModelLoadedEvent", "TrackingStatusChangedEvent",
               "BackgroundChangedEvent", "ModelConfigChangedEvent",
               "ModelMovedEvent", "ModelOutlineEvent"}
\* the event names the callers of the model pass
CalledEvents == {"TestEvent", "ModelOutlineEvent"}

\* the operations the callers of the model invoke; every other typed operation
\* of the class has the body of get_stats with another messageType and data
TypedOps == {"authenticate", "get_stats"}
Ops == TypedOps \cup {"subscribe_to_event", "unsubscribe_from_event"}
\* the same in the module src/vtspy.py
LegacyTypedOps == {"authenticate", "request_stats"}
LegacyOps == LegacyTypedOps \cup {"subscribe_to_event", "unsubscribe_from_event"}

MessageType(op) ==
    CASE op = "get_token" -> "AuthenticationTokenRequest"
      [] op = "get_api_state" -> "APIStateRequest"
      [] op = "authenticate" -> "AuthenticationRequest"
      [] op \in {"get_stats", "request_stats"} -> "StatisticsRequest"
      [] op = "set_parameter_value" -> "InjectParameterDataRequest"
      [] op \in {"subscribe_to_event", "unsubscribe_from_event"} -> "EventSubscriptionRequest"

VARIABLES
    store,               \* the file "token": <<>> when it does not exist, else <<content>>
    gen,                 \* sessions constructed so far
    state,               \* "none" | "authenticating" | "ready" | "failed"
    plugin,              \* plugin_name, plugin_developer, plugin_logo
    default_request_id,  \* self.default_request_id
    auth_token,          \* self.auth_token
    subscriptions,       \* self._subscriptions
    pending,             \* frames sent by the client, not yet read by the host
    inbox,               \* frames sent by the host, not yet received by the client
    nsent,               \* frames this session has sent
    ncalls,              \* operations called on this session
    hostSubs,            \* events the host pushes on this connection
    granted,             \* tokens the host has granted so far
    grantees,            \* the plugin identity each of them was granted to
    refused,             \* the host has answered a request of this connection with an APIError
    pc,                  \* per caller: "idle" | "recv"
    call,                \* per caller: the operation in progress
    last,                \* how the operation that ended last ended, and for which caller
    listeners,           \* the listener threads of this session, in start order
    ctor,                \* what construction did: file read, frames, exception
    connected            \* self.instance is an open connection

vars == <<store, gen, state, plugin, default_request_id, auth_token, subscriptions,
          pending, inbox, nsent, ncalls, hostSubs, granted, grantees, refused, pc, call,
          last, listeners, ctor, connected>>

\* ------------------------------------------------------------------ values
NoFrame == [kind |-> "none", to |-> 0, messageType |-> "", requestID |-> <<>>,
            data |-> [none |-> TRUE]]
\* mode is the mode argument of set_parameter_value and request_id the request_id
\* argument; sends counts the frames the
\* operation has sent and recvs its calls of recv()
NoCall == [op |-> "", event |-> "", seq |-> 0, clean |-> TRUE, listening |-> FALSE,
           mode |-> "", request_id |-> <<>>, sends |-> 0, recvs |-> 0]
\* hadFile: get_token found the token file; frame is the frame the operation received,
\* value what it returned, error what it raised
NoResult == [kind |-> "none", caller |-> "", op |-> "", event |-> "", seq |-> 0,
             clean |-> TRUE, listening |-> FALSE, mode |-> "", sends |-> 0, recvs |-> 0,
             hadFile |-> FALSE, frame |-> NoFrame, value |-> <<>>, error |-> <<>>]
NoCtor == [hadFile |-> FALSE, frame |-> NoFrame, raised |-> <<>>]
AllFalse == [e \in EventNames |-> FALSE]
Unset == <<"unset">>              \* an attribute not assigned yet
\* JSON null, and what get_token returns when the token of the response is null: the
\* response object itself
Null == <<"null">>
ResponseObject(response) == <<"response", response>>

\* the token of the n-th grant: the host makes a new token for every grant
Token(n) == <<"tok", n>>

\* plugin_name.replace(' ', '')
RemoveSpaces(s) == SelectSeq(s, LAMBDA ch : ch # " ")

\* f"{plugin_name.replace(' ', '')}Request"
DefaultRequestId(name) == RemoveSpaces(name) \o <<"R", "e", "q", "u", "e", "s", "t">>

\* the request id is sent as it was passed
RequestIdOf_verbatim(request_id) == request_id

\* request_id if request_id != "" else self.default_request_id
RequestIdOf(request_id) == IF request_id # <<>> THEN request_id ELSE default_request_id

\* the exception text without the error id
APIError_noid(message, error_id) == <<"API Error: ", message>>

\* APIError.__init__: the exception text f"API Error {error_id}: {message}"
APIError(message, error_id) == <<"API Error ", error_id, ": ", message>>

\* the exceptions of the libraries: websockets' ConnectionClosed from send() and recv()
\* on a closed connection, json.loads' JSONDecodeError, the KeyError of a missing key
ConnectionClosed == <<"ConnectionClosed">>
JSONDecodeError == <<"JSONDecodeError">>
KeyError(key) == <<"KeyError", key>>

\* json.loads(message) does not raise: the frame is JSON text
Parses(message) == message.kind # "garbage"

\* a listener thread is alive until its loop ends ("done") or an exception ends it
Alive(l) == l.pc \notin {"done", "crashed"}
AliveListeners == {i \in DOMAIN listeners : Alive(listeners[i])}

\* ------------------------------------------------------------------ frames
\* the same, with an authenticate that leaves the logo out
RequestData_nologo(op, ev) ==
    CASE op = "get_token" ->
             [pluginName |-> plugin.name, pluginDeveloper |-> plugin.developer,
              pluginLogo |-> plugin.logo]
      [] op = "authenticate" ->
             [pluginName |-> plugin.name, pluginDeveloper |-> plugin.developer,
              authenticationToken |-> auth_token]
      [] op = "subscribe_to_event" ->
             [eventName |-> ev, subscribe |-> TRUE, config |-> <<>>]
      [] op = "unsubscribe_from_event" ->
             [eventName |-> ev, subscribe |-> FALSE]
      [] OTHER -> [none |-> TRUE]

\* the "data" object of the payload each operation builds
RequestData(op, ev) ==
    CASE op = "get_token" ->
             [pluginName |-> plugin.name, pluginDeveloper |-> plugin.developer,
              pluginLogo |-> plugin.logo]
      [] op = "authenticate" ->
             [pluginName |-> plugin.name, pluginDeveloper |-> plugin.developer,
              pluginLogo |-> plugin.logo, authenticationToken |-> auth_token]
      [] op = "subscribe_to_event" ->
             [eventName |-> ev, subscribe |-> TRUE, config |-> <<>>]
      [] op = "unsubscribe_from_event" ->
             [eventName |-> ev, subscribe |-> FALSE]
      [] OTHER -> [none |-> TRUE]

\* the payload dict; seq is the position of the frame among the frames sent
Payload(op, request_id, ev, n) ==
    [seq |-> n, messageType |-> MessageType(op), requestID |-> RequestIdOf(request_id),
     data |-> RequestData(op, ev)]

\* ------------------------------------------------------------------ the host
ResponseType(mt) ==
    CASE mt = "AuthenticationTokenRequest" -> "AuthenticationTokenResponse"
      [] mt = "APIStateRequest" -> "APIStateResponse"
      [] mt = "AuthenticationRequest" -> "AuthenticationResponse"
      [] mt = "StatisticsRequest" -> "StatisticsResponse"
      [] mt = "InjectParameterDataRequest" -> "InjectParameterDataResponse"
      [] mt = "EventSubscriptionRequest" -> "EventSubscriptionResponse"

OkData(req, tok) ==
    CASE req.messageType = "AuthenticationTokenRequest" -> [authenticationToken |-> tok]
      [] req.messageType = "EventSubscriptionRequest" -> [subscribedEventCount |-> 0]
      [] OTHER -> [payload |-> req.messageType]

OkFrame(req, tok) ==
    [kind |-> "resp", to |-> req.seq, messageType |-> ResponseType(req.messageType),
     requestID |-> req.requestID, data |-> OkData(req, tok)]

ErrorFrame(req, err) ==
    [kind |-> "resp", to |-> req.seq, messageType |-> "APIError",
     requestID |-> req.requestID, data |-> err]

EventFrame(ev) ==
    [kind |-> "event", to |-> 0, messageType |-> ev, requestID |-> <<>>,
     data |-> [eventName |-> ev]]

\* a frame that is not JSON text, sent in place of the response to req
Garbage(req) ==
    [kind |-> "garbage", to |-> req.seq, messageType |-> "", requestID |-> <<>>,
     data |-> [none |-> TRUE]]

\* the error the host answers a request with when it refuses it
ErrorFor(req) ==
    IF req.messageType = "AuthenticationTokenRequest"
    THEN TokenRequestDenied ELSE RequestRequiresAuthentication

\* what the host sends for a request: the response of its type, or an APIError
Response(req, accept) ==
    IF ~accept THEN ErrorFrame(req, ErrorFor(req))
    ELSE OkFrame(req, IF req.messageType = "AuthenticationTokenRequest"
                      THEN Token(granted + 1) ELSE <<>>)

\* the plugin identity a token request presents
Grantee(req) ==
    [name |-> req.data.pluginName, developer |-> req.data.pluginDeveloper,
     logo |-> req.data.pluginLogo]

\* the host knows the request: an event subscription names one of its events
Known(req) ==
    req.messageType = "EventSubscriptionRequest" => req.data.eventName \in EventNames

\* the host reads the oldest frame the client sent and answers it
host_respond ==
    /\ pending # <<>>
    /\ \E accept \in BOOLEAN :
          LET req == Head(pending)
              granting == accept /\ req.messageType = "AuthenticationTokenRequest"
              switching == accept /\ req.messageType = "EventSubscriptionRequest" IN
          /\ accept => Known(req)
          /\ pending' = Tail(pending)
          /\ inbox' = Append(inbox, Response(req, accept))
          /\ granted' = IF granting THEN granted + 1 ELSE granted
          /\ grantees' = IF granting THEN Append(grantees, Grantee(req)) ELSE grantees
          /\ refused' = (refused \/ ~accept)
          /\ hostSubs' = IF ~switching THEN hostSubs
                         ELSE IF req.data.subscribe THEN hostSubs \cup {req.data.eventName}
                         ELSE hostSubs \ {req.data.eventName}
    /\ UNCHANGED <<store, gen, state, plugin, default_request_id, auth_token, subscriptions,
                   nsent, ncalls, pc, call, last, listeners, ctor, connected>>

\* the host answers the oldest frame the client sent with a frame that is not JSON
host_malformed ==
    /\ pending # <<>>
    /\ pending' = Tail(pending)
    /\ inbox' = Append(inbox, Garbage(Head(pending)))
    /\ UNCHANGED <<store, gen, state, plugin, default_request_id, auth_token, subscriptions,
                   nsent, ncalls, hostSubs, granted, grantees, refused, pc, call, last, listeners,
                   ctor, connected>>

\* the host answers a token request with a response whose authenticationToken is null
host_null_token ==
    /\ pending # <<>>
    /\ Head(pending).messageType = "AuthenticationTokenRequest"
    /\ pending' = Tail(pending)
    /\ inbox' = Append(inbox, OkFrame(Head(pending), Null))
    /\ UNCHANGED <<store, gen, state, plugin, default_request_id, auth_token, subscriptions,
                   nsent, ncalls, hostSubs, granted, grantees, refused, pc, call, last,
                   listeners, ctor, connected>>

\* the connection closes (the host exits, the network fails): the frames in flight
\* are lost, and send() and recv() raise ConnectionClosed from now on
transport_close ==
    /\ connected
    /\ state \in {"authenticating", "ready"}
    /\ connected' = FALSE
    /\ pending' = <<>>
    /\ inbox' = <<>>
    /\ hostSubs' = {}
    /\ UNCHANGED <<store, gen, state, plugin, default_request_id, auth_token, subscriptions,
                   nsent, ncalls, granted, grantees, refused, pc, call, last, listeners, ctor>>

\* the host pushes a frame of an event the connection is subscribed to
host_emit(ev) ==
    /\ ev \in hostSubs
    /\ Len(inbox) < MaxInbox
    /\ inbox' = Append(inbox, EventFrame(ev))
    /\ UNCHANGED <<store, gen, state, plugin, default_request_id, auth_token, subscriptions,
                   pending, nsent, ncalls, hostSubs, granted, grantees, refused, pc, call, last,
                   listeners, ctor, connected>>

\* ------------------------------------------------------------------ construction
\* VTSClient.__init__ up to the first blocking call: connect, set the attributes and
\* run get_token("TokenRequest") up to its return (token file found) or its recv()
\* the token file is never looked for
TokenFileFound_never == FALSE

\* the token file is looked for under the plugin identity it was written for
TokenFileFound_keyed ==
    store # <<>> /\ grantees # <<>> /\ grantees[Len(grantees)] = plugin'

\* an empty token file is taken for missing
TokenFileFound_nonempty == store # <<>> /\ store[1] # <<>>

\* get_token: open("token", "r") does not raise FileNotFoundError
TokenFileFound == store # <<>>

VTSClient_init(id) ==
    /\ gen < MaxSessions
    /\ state \in {"none", "ready", "failed"}
    /\ \A c \in Callers : pc[c] = "idle"
    /\ gen' = gen + 1
    /\ connected' = TRUE
    /\ plugin' = id
    /\ default_request_id' = DefaultRequestId(id.name)
    /\ hostSubs' = {}
    /\ inbox' = <<>>
    /\ listeners' = <<>>
    /\ pc' = [c \in Callers |-> "idle"]
    /\ call' = [c \in Callers |-> NoCall]
    /\ last' = NoResult
    /\ ncalls' = 0
    /\ refused' = FALSE
    /\ UNCHANGED <<store, granted, grantees>>
    /\ IF TokenFileFound
       THEN /\ auth_token' = store[1]
            /\ subscriptions' = AllFalse
            /\ state' = "ready"
            /\ pending' = <<>>
            /\ nsent' = 0
            /\ ctor' = [NoCtor EXCEPT !.hadFile = store # <<>>]
       ELSE /\ auth_token' = Unset
            /\ subscriptions' = <<>>
            /\ state' = "authenticating"
            /\ pending' = <<[seq |-> 1, messageType |-> MessageType("get_token"),
                             requestID |-> <<"T", "o", "k", "e", "n", "R", "e", "q", "u", "e", "s", "t">>,
                             data |-> [pluginName |-> id.name,
                                       pluginDeveloper |-> id.developer,
                                       pluginLogo |-> id.logo]]>>
            /\ nsent' = 1
            /\ ctor' = [NoCtor EXCEPT !.hadFile = store # <<>>]

\* with open("token", "w") as f: f.write(auth_token)
WriteToken(auth_token_) == <<auth_token_>>

\* get_token from the return of its recv() to the end of __init__
get_token_recv ==
    /\ state = "authenticating"
    /\ inbox # <<>> \/ ~connected
    /\ IF inbox = <<>>
       THEN \* recv() raises ConnectionClosed
            /\ state' = "failed"
            /\ ctor' = [ctor EXCEPT !.raised = ConnectionClosed]
            /\ UNCHANGED <<inbox, store, auth_token, subscriptions>>
       ELSE LET response == Head(inbox) IN
            /\ inbox' = Tail(inbox)
            /\ IF ~Parses(response)
               THEN /\ state' = "failed"
                    /\ ctor' = [ctor EXCEPT !.frame = response, !.raised = JSONDecodeError]
                    /\ UNCHANGED <<store, auth_token, subscriptions>>
               ELSE IF response.messageType = "APIError"
               THEN /\ state' = "failed"
                    /\ ctor' = [ctor EXCEPT !.frame = response,
                                   !.raised = APIError(response.data.message, response.data.errorID)]
                    /\ UNCHANGED <<store, auth_token, subscriptions>>
               ELSE IF response.data.authenticationToken # Null
               THEN /\ store' = WriteToken(response.data.authenticationToken)
                    /\ auth_token' = response.data.authenticationToken
                    /\ subscriptions' = AllFalse
                    /\ state' = "ready"
                    /\ ctor' = [ctor EXCEPT !.frame = response]
               ELSE \* auth_token is None: return response
                    /\ auth_token' = ResponseObject(response)
                    /\ subscriptions' = AllFalse
                    /\ state' = "ready"
                    /\ ctor' = [ctor EXCEPT !.frame = response]
                    /\ UNCHANGED store
    /\ UNCHANGED <<gen, plugin, default_request_id, pending, nsent, ncalls, hostSubs,
                   granted, grantees, refused, pc, call, last, listeners, connected>>

\* ------------------------------------------------------------------ synchronous calls
\* the call is issued with no listener alive and no other call in progress
IsClean(c) == AliveListeners = {} /\ \A o \in Callers \ {c} : pc[o] = "idle"

\* the call is issued while a listener of ev is alive
IsListening(ev) == \E i \in AliveListeners : listeners[i].event = ev

\* how an operation ends that raises before its recv()
Raised(c, op, ev, mode, err) ==
    [NoResult EXCEPT !.kind = "raise", !.caller = c, !.op = op, !.event = ev, !.mode = mode,
                     !.clean = IsClean(c), !.listening = IsListening(ev), !.error = err]

\* send() on the closed connection sends the frame all the same
SendRaises_never == FALSE

\* self.instance.send(...) raises ConnectionClosed: the operations send on the
\* connection __init__ opened and never open another
SendRaises == ~connected

\* self.instance.send(json.dumps(payload)) of an operation, up to its recv(): the
\* frame is sent and the caller blocks, or send() raises out of the operation.
\* clean records that the call was issued with no listener alive and no other call in
\* progress; a call another thread issues meanwhile clears it.
Send(c, op, ev, mode, request_id, payload) ==
    IF SendRaises
    THEN /\ last' = Raised(c, op, ev, mode, ConnectionClosed)
         /\ UNCHANGED <<nsent, pending, pc, call>>
    ELSE /\ nsent' = nsent + 1
         /\ pending' = Append(pending, payload)
         /\ pc' = [pc EXCEPT ![c] = "recv"]
         /\ last' = NoResult
         /\ call' = [d \in Callers |->
                       IF d = c
                       THEN [op |-> op, event |-> ev, seq |-> nsent + 1,
                             clean |-> IsClean(c), listening |-> IsListening(ev),
                             mode |-> mode, request_id |-> request_id,
                             sends |-> 1, recvs |-> 0]
                       ELSE [call[d] EXCEPT !.clean = FALSE]]

\* an operation other than authenticate is sent only right after authenticate returned
MaySend_authenticated(op) ==
    op = "authenticate" \/ (last.op = "authenticate" /\ last.kind = "return")

\* an operation builds its payload and sends it: it tests nothing of the session
MaySend(op) == TRUE

\* a synchronous operation up to its recv(): build the payload and instance.send() it.
\* unsub records, in the listeners of ev, that unsubscribe_from_event(ev) was called.
call_send(c, op, request_id, ev, maxCalls) ==
    /\ state = "ready"
    /\ pc[c] = "idle"
    /\ ncalls < maxCalls
    /\ op = "subscribe_to_event" => Len(listeners) < MaxListeners
    /\ MaySend(op)
    /\ ncalls' = ncalls + 1
    /\ Send(c, op, ev, "", request_id, Payload(op, request_id, ev, nsent + 1))
    /\ listeners' = IF op # "unsubscribe_from_event" THEN listeners
                    ELSE [i \in DOMAIN listeners |->
                            IF listeners[i].event = ev
                            THEN [listeners[i] EXCEPT !.unsub = TRUE] ELSE listeners[i]]
    /\ UNCHANGED <<store, gen, state, plugin, default_request_id, auth_token, subscriptions,
                   inbox, hostSubs, granted, grantees, refused, ctor, connected>>

\* the mode arguments the callers of the model pass to set_parameter_value
Modes == {"add", "set", "multiply"}

\* every mode is taken
ValidMode_any(mode) == TRUE

\* mode in ["add", "set"]
ValidMode(mode) == mode \in {"add", "set"}

\* ValueError("The mode parameter must be either 'add' or 'set'.")
ValueError == <<"ValueError", "The mode parameter must be either 'add' or 'set'.">>

\* the payload of set_parameter_value, called with the defaults consider_face_found =
\* False and parameter_values = None
ParameterPayload(mode, request_id, n) ==
    [seq |-> n, messageType |-> MessageType("set_parameter_value"),
     requestID |-> RequestIdOf(request_id),
     data |-> [mode |-> mode, faceFound |-> FALSE, parameterValues |-> <<>>]]

\* set_parameter_value up to its raise of ValueError or its recv()
set_parameter_value(c, mode, request_id, maxCalls) ==
    /\ state = "ready"
    /\ pc[c] = "idle"
    /\ ncalls < maxCalls
    /\ ncalls' = ncalls + 1
    /\ IF ~ValidMode(mode)
       THEN /\ last' = Raised(c, "set_parameter_value", "", mode, ValueError)
            /\ UNCHANGED <<nsent, pending, pc, call>>
       ELSE Send(c, "set_parameter_value", "", mode, request_id,
                 ParameterPayload(mode, request_id, nsent + 1))
    /\ UNCHANGED <<store, gen, state, plugin, default_request_id, auth_token, subscriptions,
                   inbox, hostSubs, granted, grantees, refused, listeners, ctor, connected>>

\* get_token called on the constructed session, up to its return of the content of
\* the token file or its recv()
get_token(c, request_id, maxCalls) ==
    /\ state = "ready"
    /\ pc[c] = "idle"
    /\ ncalls < maxCalls
    /\ ncalls' = ncalls + 1
    /\ IF TokenFileFound
       THEN /\ last' = [NoResult EXCEPT !.kind = "return", !.caller = c, !.op = "get_token",
                                        !.clean = IsClean(c), !.hadFile = store # <<>>,
                                        !.value = store[1]]
            /\ UNCHANGED <<nsent, pending, pc, call>>
       ELSE Send(c, "get_token", "", "", request_id,
                 Payload("get_token", request_id, "", nsent + 1))
    /\ UNCHANGED <<store, gen, state, plugin, default_request_id, auth_token, subscriptions,
                   inbox, hostSubs, granted, grantees, refused, listeners, ctor, connected>>

\* the file "token" is deleted (class docstring: "If you want to change the plugin
\* information, you will have to delete the file")
token_file_deleted ==
    /\ state = "ready"
    /\ store # <<>>
    /\ \A c \in Callers : pc[c] = "idle"
    /\ store' = <<>>
    /\ UNCHANGED <<gen, state, plugin, default_request_id, auth_token, subscriptions,
                   pending, inbox, nsent, ncalls, hostSubs, granted, grantees, refused, pc, call, last,
                   listeners, ctor, connected>>

\* what a file "token" that this client did not write holds: nothing (the empty
\* string) or some other text
FileContents == {<<>>, <<"x">>}

\* a file "token" is put in the working directory while no session is being constructed
token_file_written(content) ==
    /\ store = <<>>
    /\ state # "authenticating"
    /\ \A c \in Callers : pc[c] = "idle"
    /\ store' = <<content>>
    /\ UNCHANGED <<gen, state, plugin, default_request_id, auth_token, subscriptions,
                   pending, inbox, nsent, ncalls, hostSubs, granted, grantees, refused, pc, call, last,
                   listeners, ctor, connected>>

\* the thread is bound to another event name than the one subscribed to
NewListener_other(ev, h) ==
    [event |-> IF ev = "TestEvent" THEN "ModelLoadedEvent" ELSE "TestEvent", handler |-> h,
     pc |-> "check", msg |-> NoFrame, further |-> 0, unsub |-> FALSE, pause |-> 0]

\* the thread subscribe_to_event starts: listener() before its first flag test, its
\* closure holding event_name and on_message. The on_message callable of a call is
\* named by the position of the call's request; unsub records that
\* unsubscribe_from_event was called with the thread's event name since it started;
\* pause is the time.sleep() the thread is in, in hundredths of a second.
NewListener(ev, h) ==
    [event |-> ev, handler |-> h, pc |-> "check", msg |-> NoFrame, further |-> 0,
     unsub |-> FALSE, pause |-> 0]

\* self._subscriptions[event_name] = True (a key the dict does not have is added);
\* further counts a listener's receives since the flag of its event was last cleared
SetFlag(ev) ==
    [e \in DOMAIN subscriptions \cup {ev} |-> IF e = ev THEN TRUE ELSE subscriptions[e]]

\* self._subscriptions[event_name] = False
ClearFlag(ev) ==
    [e \in DOMAIN subscriptions \cup {ev} |-> IF e = ev THEN FALSE ELSE subscriptions[e]]

\* the flag is assigned before the test of the frame
FlagsOnError_early(op, ev) ==
    CASE op = "subscribe_to_event" -> SetFlag(ev)
      [] op = "unsubscribe_from_event" -> ClearFlag(ev)
      [] OTHER -> subscriptions

\* self._subscriptions when the operation raises APIError: the raise comes before the
\* assignment of the flag
FlagsOnError(op, ev) == subscriptions

\* the operation returns response["data"]
ReturnValue_data(response) == response.data

\* return response
ReturnValue(response) == response

\* the operation sends its request once more when the answer is an APIError
Resends_once(c) == call[c].sends < 2

\* the operation raises on an APIError frame: no loop sends the request again
Resends(c) == FALSE

\* the operation takes only the response to its own request
Accepts_own(c, response) == response.kind = "resp" /\ response.to = call[c].seq

\* the operation takes the frame recv() returned: nothing tests its requestID or,
\* beyond "APIError", its messageType
Accepts(c, response) == TRUE

\* the error of an operation that does not take the frame it received
Unexpected == <<"Unexpected">>

\* how the operation in progress of caller c ends
Outcome(c, kind, response, value, err) ==
    [kind |-> kind, caller |-> c, op |-> call[c].op, event |-> call[c].event, seq |-> call[c].seq,
     clean |-> call[c].clean, listening |-> call[c].listening, mode |-> call[c].mode,
     sends |-> call[c].sends, recvs |-> call[c].recvs + 1, hadFile |-> FALSE,
     frame |-> response, value |-> value, error |-> err]

\* a synchronous operation from the return of its recv() to its return or raise:
\* recv() raising ConnectionClosed, json.loads, the APIError test, and for get_token the
\* token file, for subscribe and unsubscribe the flag and the thread
call_recv(c) ==
    /\ state = "ready"
    /\ pc[c] = "recv"
    /\ inbox # <<>> \/ ~connected
    /\ LET closed == inbox = <<>>
           response == Head(inbox)
           op == call[c].op
           ev == call[c].event
           failed == ~closed /\ Parses(response) /\ response.messageType = "APIError"
           again == failed /\ Resends(c) IN
       /\ inbox' = IF closed THEN inbox ELSE Tail(inbox)
       /\ pc' = IF again THEN pc ELSE [pc EXCEPT ![c] = "idle"]
       /\ call' = IF again THEN [call EXCEPT ![c].sends = @ + 1, ![c].recvs = @ + 1]
                  ELSE [call EXCEPT ![c] = NoCall]
       /\ nsent' = IF again THEN nsent + 1 ELSE nsent
       /\ pending' = IF again THEN Append(pending, Payload(op, <<>>, ev, nsent + 1))
                     ELSE pending
       /\ IF closed
          THEN /\ last' = Outcome(c, "raise", NoFrame, <<>>, ConnectionClosed)
               /\ UNCHANGED <<store, subscriptions, listeners>>
          ELSE IF ~Parses(response)
          THEN /\ last' = Outcome(c, "raise", response, <<>>, JSONDecodeError)
               /\ UNCHANGED <<store, subscriptions, listeners>>
          ELSE IF ~Accepts(c, response)
          THEN /\ last' = Outcome(c, "raise", response, <<>>, Unexpected)
               /\ UNCHANGED <<store, subscriptions, listeners>>
          ELSE IF failed
          THEN /\ last' = IF again THEN last
                          ELSE Outcome(c, "raise", response, <<>>,
                                       APIError(response.data.message, response.data.errorID))
               /\ subscriptions' = FlagsOnError(op, ev)
               /\ UNCHANGED <<store, listeners>>
          ELSE CASE op = "subscribe_to_event" ->
                      /\ last' = Outcome(c, "return", response, ReturnValue(response), <<>>)
                      /\ subscriptions' = SetFlag(ev)
                      /\ listeners' = Append([i \in DOMAIN listeners |->
                                                IF listeners[i].event = ev
                                                THEN [listeners[i] EXCEPT !.further = 0]
                                                ELSE listeners[i]],
                                             NewListener(ev, call[c].seq))
                      /\ UNCHANGED store
                 [] op = "unsubscribe_from_event" ->
                      /\ last' = Outcome(c, "return", response, ReturnValue(response), <<>>)
                      /\ subscriptions' = ClearFlag(ev)
                      /\ UNCHANGED <<store, listeners>>
                 [] op = "get_token" ->
                      /\ IF "authenticationToken" \notin DOMAIN response.data
                         THEN /\ last' = Outcome(c, "raise", response, <<>>,
                                                 KeyError("authenticationToken"))
                              /\ UNCHANGED store
                         ELSE IF response.data.authenticationToken # Null
                         THEN /\ store' = WriteToken(response.data.authenticationToken)
                              /\ last' = Outcome(c, "return", response,
                                                 response.data.authenticationToken, <<>>)
                         ELSE /\ last' = Outcome(c, "return", response,
                                                 ResponseObject(response), <<>>)
                              /\ UNCHANGED store
                      /\ UNCHANGED <<subscriptions, listeners>>
                 [] OTHER ->
                      /\ last' = Outcome(c, "return", response, ReturnValue(response), <<>>)
                      /\ UNCHANGED <<store, subscriptions, listeners>>
    /\ UNCHANGED <<gen, state, plugin, default_request_id, auth_token, ncalls, hostSubs,
                   granted, grantees, refused, ctor, connected>>

\* ------------------------------------------------------------------ listener threads
\* what the on_message callables of the program do: return, or raise an exception
HandlerRaises == BOOLEAN

\* the loop does not test the flag
FlagIsTrue_always(ev) == TRUE

\* self._subscriptions[event_name] is True
FlagIsTrue(ev) == subscriptions[ev] = TRUE

\* while self._subscriptions[event_name] is True
listener_check(i) ==
    /\ i \in DOMAIN listeners
    /\ listeners[i].pc = "check"
    /\ listeners' = [listeners EXCEPT ![i].pc =
                        IF FlagIsTrue(listeners[i].event) THEN "recv" ELSE "done"]
    /\ UNCHANGED <<store, gen, state, plugin, default_request_id, auth_token, subscriptions,
                   pending, inbox, nsent, ncalls, hostSubs, granted, grantees, refused, pc, call, last,
                   ctor, connected>>

\* every event gets the pause of one second
SleepTime_long(event_name) == 100

\* time.sleep(1) if event_name != "ModelOutlineEvent", else time.sleep(0.05), in
\* hundredths of a second
SleepTime(event_name) == IF event_name # "ModelOutlineEvent" THEN 100 ELSE 5

\* recv() gives up after a while when no frame arrives
RecvReturns_timeout == TRUE

\* self.instance.recv() returns a frame or raises: it is called without a timeout and
\* blocks until a frame has arrived or the connection has closed
RecvReturns == inbox # <<>> \/ ~connected

\* message = self.instance.recv(); on_message(json.loads(message)), up to the
\* time.sleep() that follows. msg is the frame on_message was called with. An exception
\* of recv(), of json.loads or of on_message ends the thread: nothing catches it.
listener_recv(i, raises) ==
    /\ i \in DOMAIN listeners
    /\ listeners[i].pc = "recv"
    /\ RecvReturns
    /\ IF inbox = <<>>
       THEN /\ listeners' = [listeners EXCEPT ![i].pc = "crashed"]
            /\ UNCHANGED inbox
       ELSE /\ inbox' = Tail(inbox)
            /\ listeners' = [listeners EXCEPT
                  ![i].pc = IF Parses(Head(inbox)) /\ ~raises THEN "sleep" ELSE "crashed",
                  ![i].msg = IF Parses(Head(inbox)) THEN Head(inbox) ELSE NoFrame,
                  ![i].pause = IF Parses(Head(inbox)) /\ ~raises
                               THEN SleepTime(listeners[i].event) ELSE 0,
                  ![i].further = IF subscriptions[listeners[i].event]
                                 THEN 0 ELSE listeners[i].further + 1]
    /\ UNCHANGED <<store, gen, state, plugin, default_request_id, auth_token, subscriptions,
                   pending, nsent, ncalls, hostSubs, granted, grantees, refused, pc, call, last, ctor,
                   connected>>

\* time.sleep(1) or time.sleep(0.05) returns
listener_sleep(i) ==
    /\ i \in DOMAIN listeners
    /\ listeners[i].pc = "sleep"
    /\ listeners' = [listeners EXCEPT ![i].pc = "check", ![i].msg = NoFrame,
                                      ![i].pause = 0]
    /\ UNCHANGED <<store, gen, state, plugin, default_request_id, auth_token, subscriptions,
                   pending, inbox, nsent, ncalls, hostSubs, granted, grantees, refused, pc, call, last,
                   ctor, connected>>

\* ------------------------------------------------------------------ src/vtspy.py
\* The repository's other client module, src/vtspy.py, has the same class with the
\* same listener; its operations differ in the request id and in what they do with an
\* APIError frame.

\* the "data" object of the payload each operation of src/vtspy.py builds
LegacyRequestData(op, ev) ==
    CASE op = "authenticate" ->
             [pluginName |-> plugin.name, pluginDeveloper |-> plugin.developer,
              authenticationToken |-> auth_token]
      [] op = "subscribe_to_event" ->
             [eventName |-> ev, subscribe |-> TRUE, config |-> <<>>]
      [] op = "unsubscribe_from_event" ->
             [eventName |-> ev, subscribe |-> FALSE]
      [] OTHER -> [none |-> TRUE]

\* the payload dict of src/vtspy.py: "requestID": request_id
LegacyPayload(op, request_id, ev, n) ==
    [seq |-> n, messageType |-> MessageType(op), requestID |-> request_id,
     data |-> LegacyRequestData(op, ev)]

\* __init__ of src/vtspy.py up to the return of get_token (token file found) or its recv()
legacy_init(id, request_id) ==
    /\ gen < MaxSessions
    /\ state \in {"none", "ready", "failed"}
    /\ \A c \in Callers : pc[c] = "idle"
    /\ gen' = gen + 1
    /\ connected' = TRUE
    /\ plugin' = id
    /\ hostSubs' = {}
    /\ inbox' = <<>>
    /\ listeners' = <<>>
    /\ pc' = [c \in Callers |-> "idle"]
    /\ call' = [c \in Callers |-> NoCall]
    /\ last' = NoResult
    /\ ncalls' = 0
    /\ refused' = FALSE
    /\ ctor' = [NoCtor EXCEPT !.hadFile = store # <<>>]
    /\ UNCHANGED <<store, granted, grantees, default_request_id>>
    /\ IF store # <<>>
       THEN /\ auth_token' = store[1]
            /\ subscriptions' = AllFalse
            /\ state' = "ready"
            /\ pending' = <<>>
            /\ nsent' = 0
       ELSE /\ auth_token' = Unset
            /\ subscriptions' = <<>>
            /\ state' = "authenticating"
            /\ pending' = <<[seq |-> 1, messageType |-> MessageType("get_token"),
                             requestID |-> request_id,
                             data |-> [pluginName |-> id.name,
                                       pluginDeveloper |-> id.developer,
                                       pluginLogo |-> id.logo]]>>
            /\ nsent' = 1

\* get_token of src/vtspy.py from the return of its recv(): the frame is not tested for
\* APIError, and response["data"]["authenticationToken"] of an error frame is a KeyError
legacy_get_token_recv ==
    /\ state = "authenticating"
    /\ inbox # <<>>
    /\ LET response == Head(inbox) IN
       /\ inbox' = Tail(inbox)
       /\ IF "authenticationToken" \notin DOMAIN response.data
          THEN /\ state' = "failed"
               /\ ctor' = [ctor EXCEPT !.frame = response,
                              !.raised = <<"KeyError", "authenticationToken">>]
               /\ UNCHANGED <<store, auth_token, subscriptions>>
          ELSE /\ store' = <<response.data.authenticationToken>>
               /\ auth_token' = response.data.authenticationToken
               /\ subscriptions' = AllFalse
               /\ state' = "ready"
               /\ ctor' = [ctor EXCEPT !.frame = response]
    /\ UNCHANGED <<gen, plugin, default_request_id, pending, nsent, ncalls, hostSubs,
                   granted, grantees, refused, pc, call, last, listeners, connected>>

\* an operation of src/vtspy.py up to its recv()
legacy_call_send(c, op, request_id, ev) ==
    /\ state = "ready"
    /\ pc[c] = "idle"
    /\ ncalls < MaxCalls
    /\ op = "subscribe_to_event" => Len(listeners) < MaxListeners
    /\ nsent' = nsent + 1
    /\ ncalls' = ncalls + 1
    /\ pending' = Append(pending, LegacyPayload(op, request_id, ev, nsent + 1))
    /\ pc' = [pc EXCEPT ![c] = "recv"]
    /\ last' = NoResult
    /\ call' = [d \in Callers |->
                  IF d = c
                  THEN [op |-> op, event |-> ev, seq |-> nsent + 1,
                        clean |-> IsClean(c), listening |-> IsListening(ev),
                        mode |-> "", request_id |-> request_id, sends |-> 1, recvs |-> 0]
                  ELSE [call[d] EXCEPT !.clean = FALSE]]
    /\ UNCHANGED <<store, gen, state, plugin, default_request_id, auth_token, subscriptions,
                   inbox, hostSubs, granted, grantees, refused, listeners, ctor, connected>>

\* an operation of src/vtspy.py from the return of its recv(): the typed operations
\* return the frame untested; subscribe and unsubscribe return an APIError frame
legacy_call_recv(c) ==
    /\ state = "ready"
    /\ pc[c] = "recv"
    /\ inbox # <<>>
    /\ LET response == Head(inbox)
           ev == call[c].event IN
       /\ inbox' = Tail(inbox)
       /\ last' = Outcome(c, "return", response, response, <<>>)
       /\ CASE call[c].op = "subscribe_to_event" /\ response.messageType # "APIError" ->
                 /\ subscriptions' = SetFlag(ev)
                 /\ listeners' = Append([i \in DOMAIN listeners |->
                                           IF listeners[i].event = ev
                                           THEN [listeners[i] EXCEPT !.further = 0]
                                           ELSE listeners[i]],
                                        NewListener(ev, call[c].seq))
            [] call[c].op = "unsubscribe_from_event" /\ response.messageType # "APIError" ->
                 /\ subscriptions' = ClearFlag(ev)
                 /\ UNCHANGED listeners
            [] OTHER -> UNCHANGED <<subscriptions, listeners>>
    /\ pc' = [pc EXCEPT ![c] = "idle"]
    /\ call' = [call EXCEPT ![c] = NoCall]
    /\ UNCHANGED <<store, gen, state, plugin, default_request_id, auth_token, pending,
                   nsent, ncalls, hostSubs, granted, grantees, refused, ctor, connected>>

\* ------------------------------------------------------------------ specification
Init ==
    /\ store = <<>>
    /\ gen = 0
    /\ state = "none"
    /\ plugin = [name |-> <<>>, developer |-> "", logo |-> ""]
    /\ default_request_id = <<>>
    /\ auth_token = Unset
    /\ subscriptions = <<>>
    /\ pending = <<>>
    /\ inbox = <<>>
    /\ nsent = 0
    /\ ncalls = 0
    /\ refused = FALSE
    /\ hostSubs = {}
    /\ granted = 0
    /\ grantees = <<>>
    /\ pc = [c \in Callers |-> "idle"]
    /\ call = [c \in Callers |-> NoCall]
    /\ last = NoResult
    /\ listeners = <<>>
    /\ ctor = NoCtor
    /\ connected = FALSE

\* the session, its listener threads and the host
SessionStep ==
    \/ VTSClient_init(SessionIdentity(gen + 1))
    \/ get_token_recv
    \/ host_respond

\* the listener threads of a program whose on_message callables return
ListenerStep ==
    \/ \E i \in 1..MaxListeners : listener_check(i)
    \/ \E i \in 1..MaxListeners : listener_recv(i, FALSE)
    \/ \E i \in 1..MaxListeners : listener_sleep(i)

\* a program that calls the client from its main thread only
MainStep(maxCalls) ==
    \/ \E c \in MainThread, op \in TypedOps, request_id \in RequestIds :
          call_send(c, op, request_id, "", maxCalls)
    \/ \E c \in MainThread, op \in Ops \ TypedOps, ev \in CalledEvents :
          call_send(c, op, <<>>, ev, maxCalls)
    \/ \E c \in MainThread : call_recv(c)
    \/ \E ev \in CalledEvents : host_emit(ev)

Next == SessionStep \/ ListenerStep \/ MainStep(MaxCalls)

Spec == Init /\ [][Next]_vars

\* the same program, calling up to DeepCalls operations on a session
NextDeep == SessionStep \/ ListenerStep \/ MainStep(DeepCalls)

SpecDeep == Init /\ [][NextDeep]_vars

\* a program whose threads call the typed operations concurrently
NextThreads ==
    \/ SessionStep
    \/ \E c \in Callers, op \in TypedOps, request_id \in RequestIds :
          call_send(c, op, request_id, "", MaxCalls)
    \/ \E c \in Callers : call_recv(c)

SpecThreads == Init /\ [][NextThreads]_vars

\* every thread that can take a step is scheduled and the host answers every request
\* it was sent; the host need not push events and the program need not call anything
FairSpec ==
    /\ Spec
    /\ \A i \in 1..MaxListeners :
          WF_vars(listener_check(i)) /\ WF_vars(listener_recv(i, FALSE))
          /\ WF_vars(listener_sleep(i))
    /\ WF_vars(host_respond)
    /\ WF_vars(\E c \in MainThread : call_recv(c))
    /\ WF_vars(get_token_recv)

\* the host may answer with a frame that is not JSON, and the connection may close
FaultStep ==
    \/ host_malformed
    \/ transport_close

\* a program that subscribes to TestEvent with an on_message that may raise, on a
\* connection with faults
NextFaults ==
    \/ SessionStep
    \/ FaultStep
    \/ \E i \in 1..MaxListeners : listener_check(i)
    \/ \E i \in 1..MaxListeners, raises \in HandlerRaises : listener_recv(i, raises)
    \/ \E i \in 1..MaxListeners : listener_sleep(i)
    \/ \E c \in MainThread : call_send(c, "get_stats", <<>>, "", MaxCalls)
    \/ \E c \in MainThread, op \in Ops \ TypedOps : call_send(c, op, <<>>, "TestEvent", MaxCalls)
    \/ \E c \in MainThread : call_recv(c)
    \/ host_emit("TestEvent")

SpecFaults == Init /\ [][NextFaults]_vars

\* a program that calls the typed operations, set_parameter_value and get_token from
\* its main thread, while the token file may be deleted
NextOps ==
    \/ SessionStep
    \/ token_file_deleted
    \/ \E c \in MainThread, op \in TypedOps, request_id \in RequestIds :
          call_send(c, op, request_id, "", MaxCalls)
    \/ \E c \in MainThread, mode \in Modes, request_id \in RequestIds :
          set_parameter_value(c, mode, request_id, MaxCalls)
    \/ \E c \in MainThread, request_id \in RequestIds : get_token(c, request_id, MaxCalls)
    \/ \E c \in MainThread : call_recv(c)

SpecOps == Init /\ [][NextOps]_vars

\* a program that authenticates, asks for the token and subscribes to TestEvent, while
\* the token file may be deleted
NextToken ==
    \/ SessionStep
    \/ token_file_deleted
    \/ ListenerStep
    \/ \E c \in MainThread : call_send(c, "authenticate", <<>>, "", MaxCalls)
    \/ \E c \in MainThread : get_token(c, <<>>, MaxCalls)
    \/ \E c \in MainThread, op \in Ops \ TypedOps : call_send(c, op, <<>>, "TestEvent", MaxCalls)
    \/ \E c \in MainThread : call_recv(c)
    \/ host_emit("TestEvent")

SpecToken == Init /\ [][NextToken]_vars

\* the same operations on a connection with faults
NextOpsFaults == NextOps \/ FaultStep

SpecOpsFaults == Init /\ [][NextOpsFaults]_vars

\* the event names a program passes that also names an event the host does not have
CalledNames == {"TestEvent", "NoSuchEvent"}

\* a program that subscribes to and unsubscribes from the names of CalledNames
NextNames ==
    \/ SessionStep
    \/ ListenerStep
    \/ \E c \in MainThread, op \in Ops \ TypedOps, ev \in CalledNames :
          call_send(c, op, <<>>, ev, MaxCalls)
    \/ \E c \in MainThread : call_recv(c)
    \/ \E ev \in CalledNames : host_emit(ev)

SpecNames == Init /\ [][NextNames]_vars

\* a program that authenticates and asks for the token, with a host that may answer a
\* token request with a null token
NextNull ==
    \/ SessionStep
    \/ host_null_token
    \/ \E c \in MainThread : call_send(c, "authenticate", <<>>, "", MaxCalls)
    \/ \E c \in MainThread : get_token(c, <<>>, MaxCalls)
    \/ \E c \in MainThread : call_recv(c)

SpecNull == Init /\ [][NextNull]_vars

\* a program that constructs sessions and authenticates in a directory where the file
\* "token" may be put and deleted by others
NextStore ==
    \/ SessionStep
    \/ \E content \in FileContents : token_file_written(content)
    \/ token_file_deleted
    \/ \E c \in MainThread : call_send(c, "authenticate", <<>>, "", MaxCalls)
    \/ \E c \in MainThread : call_recv(c)

SpecStore == Init /\ [][NextStore]_vars

\* a program that uses the client of src/vtspy.py from its main thread
NextLegacy ==
    \/ \E request_id \in RequestIds : legacy_init(SessionIdentity(gen + 1), request_id)
    \/ legacy_get_token_recv
    \/ \E c \in MainThread, op \in LegacyTypedOps, request_id \in RequestIds :
          legacy_call_send(c, op, request_id, "")
    \/ \E c \in MainThread, op \in LegacyOps \ LegacyTypedOps, ev \in CalledEvents :
          legacy_call_send(c, op, <<>>, ev)
    \/ \E c \in MainThread : legacy_call_recv(c)
    \/ ListenerStep
    \/ host_respond
    \/ \E ev \in CalledEvents : host_emit(ev)

SpecLegacy == Init /\ [][NextLegacy]_vars

\* ------------------------------------------------------------------ claims
Returned(op) == last.kind = "return" /\ last.op = op
ListenersOf(ev) == {i \in DOMAIN listeners : listeners[i].event = ev}

\* C1: a call issued with no listener alive and no other call in progress gets, as its
\* response, the host's response to the request it sent (the Nth call the Nth response).
C1_FifoCorrelation ==
    (last.kind # "none" /\ last.clean) =>
        (last.frame.kind = "resp" /\ last.frame.to = last.seq)

\* C2: no frame is misdelivered: a synchronous call consumes the response to its own
\* request and a listener hands only event frames to its handler.
C2_NoMisdelivery ==
    /\ last.kind # "none" => (last.frame.kind = "resp" /\ last.frame.to = last.seq)
    /\ \A i \in DOMAIN listeners : listeners[i].msg.kind \in {"none", "event"}

\* C3: a session constructed without a token file has sent exactly one frame of its
\* own, the token request, received its response and written the granted token to the
\* file; a session constructed with a token file has sent and received nothing of its
\* own and holds the content of the file.
C3_TokenRoundTrip ==
    state = "ready" =>
        /\ store = <<auth_token>>
        /\ ctor.hadFile => (nsent = ncalls /\ ctor.frame = NoFrame)
        /\ ~ctor.hadFile =>
              /\ nsent = ncalls + 1
              /\ ctor.frame.to = 1
              /\ ctor.frame.messageType = "AuthenticationTokenResponse"
              /\ store = <<ctor.frame.data.authenticationToken>>

\* C3, its case: the second session, constructed after the first one was granted a token
C3_SecondSession ==
    gen = 2 /\ state = "ready" /\ ctor.hadFile /\ granted = 1 /\ auth_token = Token(1)

\* C4: when the response to the token request is an APIError, construction raises an
\* APIError made of the frame's errorID and message, and the token file does not exist.
C4_TokenDenied ==
    (state = "failed" \/ ctor.frame.messageType = "APIError") =>
        /\ state = "failed"
        /\ ctor.frame.messageType = "APIError"
        /\ ctor.raised = <<"API Error ", ctor.frame.data.errorID, ": ", ctor.frame.data.message>>
        /\ store = <<>>

\* C4, its case: the host denied the token request
C4_Denied == state = "failed" /\ ctor.frame.data.errorID = 50

\* C5: an operation whose response frame is an APIError raises an APIError made of the
\* frame's errorID and message; it does not return the frame.
C5_ErrorSurfacing ==
    (last.kind # "none" /\ last.frame.messageType = "APIError") =>
        /\ last.kind = "raise"
        /\ last.error = <<"API Error ", last.frame.data.errorID, ": ", last.frame.data.message>>

\* C6: when unsubscribe(E) returns the flag of E is false; a listener completes at most
\* one receive while the flag of its event is false; and while the flag stays false a
\* listener that is not in a receive starts no receive and calls its handler no more.
C6_SubscriptionLifecycle ==
    [][ /\ \A c \in Callers :
              (pc[c] = "recv" /\ call[c].op = "unsubscribe_from_event"
                 /\ pc'[c] = "idle" /\ last'.kind = "return")
              => subscriptions'[call[c].event] = FALSE
        /\ \A i \in DOMAIN listeners' : listeners'[i].further <= 1
        /\ \A i \in DOMAIN listeners \cap DOMAIN listeners' :
              (/\ ~subscriptions[listeners[i].event]
               /\ ~subscriptions'[listeners[i].event]
               /\ listeners[i].pc # "recv")
              => (/\ listeners'[i].pc # "recv"
                  /\ listeners'[i].msg \in {listeners[i].msg, NoFrame})
      ]_vars

\* C6, its case: subscribe then unsubscribe, and the listener ended after one more receive
C6_ListenerEnded ==
    /\ Returned("unsubscribe_from_event")
    /\ ~subscriptions[last.event]
    /\ \E i \in ListenersOf(last.event) :
          listeners[i].pc = "done" /\ listeners[i].further = 1

\* C7: unsubscribe(E) called while a listener of E is alive, with a host that refuses
\* nothing, returns the acknowledgment of its own request.
C7_UnsubscribeReturnsAck ==
    (Returned("unsubscribe_from_event") /\ last.listening /\ ~refused) =>
        /\ last.frame.kind = "resp"
        /\ last.frame.to = last.seq
        /\ last.frame.messageType = "EventSubscriptionResponse"

\* C8: at most one listener is alive for any event name.
C8_OneListenerPerEvent ==
    \A ev \in EventNames : Cardinality(ListenersOf(ev) \cap AliveListeners) <= 1

\* C9: at most one request is outstanding: no two callers are between their send and
\* their receive.
C9_OneOutstanding == Cardinality({c \in Callers : pc[c] = "recv"}) <= 1

\* C10: once unsubscribe(E) has returned, every listener of E eventually terminates.
C10_ListenerTerminates ==
    \A ev \in CalledEvents :
        (Returned("unsubscribe_from_event") /\ last.event = ev)
            ~> (\A i \in ListenersOf(ev) : listeners[i].pc = "done")

\* C11: a listener thread stays alive as long as unsubscribe_from_event has not been
\* called with its event name, whatever frames it receives and whatever its handler does.
C11_ListenerStaysAlive ==
    \A i \in DOMAIN listeners :
        (connected /\ ~listeners[i].unsub) => Alive(listeners[i])

\* an operation begins in this step: set_parameter_value called by c with mode m
SetParameterValueCalled(c, m) ==
    /\ ncalls' = ncalls + 1
    /\ pc[c] = "idle"
    /\ \/ last'.caller = c /\ last'.op = "set_parameter_value" /\ last'.mode = m
       \/ call'[c].op = "set_parameter_value" /\ call'[c].mode = m

RaisesAPIError(c) ==
    /\ pc[c] = "recv" /\ pc'[c] = "idle"
    /\ last'.kind = "raise" /\ last'.frame.messageType = "APIError"

\* C13: an operation that raises an APIError leaves the connection open and the token,
\* the token file, every flag and every listener as they were, and the operation called
\* next sends one frame and ends after one receive.
C13_OpenAfterError ==
    [][ /\ \A c \in Callers :
              RaisesAPIError(c) =>
                 /\ connected /\ connected' /\ state' = "ready"
                 /\ auth_token' = auth_token /\ store' = store
                 /\ subscriptions' = subscriptions
                 /\ listeners' = listeners
        /\ \A c \in Callers :
              (last.kind = "raise" /\ last.frame.messageType = "APIError"
                 /\ ncalls' = ncalls + 1 /\ pc[c] = "idle" /\ pc'[c] # pc[c])
              => (nsent' = nsent + 1 /\ Len(pending') = Len(pending) + 1
                  /\ pc'[c] = "recv" /\ call'[c].sends = 1 /\ call'[c].recvs = 0)
        /\ \A c \in Callers :
              (pc[c] = "recv" /\ pc'[c] = "idle") =>
                 (last'.sends = 1 /\ last'.recvs = 1 /\ nsent' = nsent)
      ]_vars

\* C13, its case: the first call was refused and raised, the second one returned
C13_NextCallReturned ==
    /\ ncalls = 2 /\ refused /\ listeners = <<>>
    /\ last.kind = "return" /\ last.frame.messageType # "APIError"

\* C14: once a call has failed on a frame that does not parse, no operation of the
\* session sends a request or returns a response.
C14_MalformedIsFatal ==
    [][ (last.kind = "raise" /\ last.error = JSONDecodeError /\ gen' = gen)
          => (nsent' = nsent /\ last'.kind # "return") ]_vars

C16_TokenImmutable ==
    [][ (state = "ready" /\ gen' = gen) =>
           /\ auth_token' = auth_token
           /\ (store # <<>> /\ store' # <<>>) => store' = store
      ]_vars

\* C16, its case: the file was deleted and get_token wrote a new token to it, which
\* the session does not hold
C16_Regranted ==
    /\ state = "ready" /\ Returned("get_token")
    /\ store = <<last.value>> /\ store # <<auth_token>>

\* C17 as claimed: what get_stats returns is the data object of the frame it received.
C17_ReturnsData == Returned("get_stats") => last.value = last.frame.data

\* C17: what get_stats returns is the frame it received, whole, so that its data
\* object is the one of the frame.
C17_ReturnsFrame ==
    Returned("get_stats") => (last.value = last.frame /\ last.value.data = last.frame.data)

\* C17, its case: get_stats returned the StatisticsResponse of the host
C17_StatsReturned ==
    /\ Returned("get_stats")
    /\ last.frame.kind = "resp" /\ last.frame.to = last.seq
    /\ last.value.messageType = "StatisticsResponse"

\* C18: the keys of the subscription map of a constructed session are the seven event
\* names, each mapped to a boolean.
C18_FixedKeySet ==
    state = "ready" =>
        /\ DOMAIN subscriptions = EventNames
        /\ \A e \in EventNames : subscriptions[e] \in BOOLEAN

C21_NoCorrelation ==
    [][ \A c \in Callers :
          (pc[c] = "recv" /\ pc'[c] = "idle") =>
             /\ inbox # <<>>
             /\ inbox' = Tail(inbox)
             /\ last'.frame = Head(inbox)
             /\ Head(inbox).messageType # "APIError" =>
                   (last'.kind = "return" /\ last'.value = Head(inbox))
      ]_vars

\* C21, its case: a call returned a frame that is not the response to its request
C21_ForeignFrameReturned ==
    last.kind = "return" /\ (last.frame.kind = "event" \/ last.frame.to # last.seq)

\* C22: the frame a call sends carries the request_id argument when it is not empty and
\* else the plugin name without its spaces followed by "Request"; no frame the client
\* has sent has an empty requestID.
C22_RequestId ==
    [][ /\ \A c \in Callers :
              (pc[c] = "idle" /\ pc'[c] = "recv") =>
                 /\ Len(pending') = Len(pending) + 1
                 /\ pending'[Len(pending')].requestID =
                       IF call'[c].request_id # <<>> THEN call'[c].request_id
                       ELSE RemoveSpaces(plugin.name) \o <<"R", "e", "q", "u", "e", "s", "t">>
        /\ \A k \in DOMAIN pending' : pending'[k].requestID # <<>>
      ]_vars

\* C22, its case: a call without request_id on the session of the plugin "My P" has
\* sent "MyPRequest"
C22_DefaultIdSent ==
    /\ pending # <<>>
    /\ \E c \in Callers : pc[c] = "recv" /\ call[c].request_id = <<>>
    /\ plugin.name = <<"M", "y", " ", "P">>
    /\ pending[Len(pending)].requestID = <<"M", "y", "P", "R", "e", "q", "u", "e", "s", "t">>

\* C23: a session that is ready after a token exchange holds the token that the
\* exchange wrote to the file before construction returned.
C23_SavedBeforeReady ==
    (state = "ready" /\ ~ctor.hadFile) => (store # <<>> /\ store[1] = auth_token)

\* C24: a session constructed while the token file exists adopts the content of the
\* file without a token request, whatever its plugin identity: the token it holds is the
\* one granted last, also when that was granted to another identity.
C24_SharedToken ==
    [][ /\ (gen' = gen + 1 /\ store # <<>>) =>
              /\ state' = "ready" /\ auth_token' = store[1]
              /\ pending' = <<>> /\ nsent' = 0 /\ store' = store
        /\ (state' = "ready" /\ ctor'.hadFile) =>
              (grantees' # <<>> /\ auth_token' = Token(Len(grantees')))
      ]_vars

\* C24, its case: the session holds the token granted to another plugin identity
C24_OtherIdentity ==
    /\ state = "ready" /\ ctor.hadFile /\ grantees # <<>>
    /\ plugin # grantees[Len(grantees)]
    /\ auth_token = Token(Len(grantees))

\* C25: a listener in recv() stays there until it is given a frame, whatever happens to
\* the flag of its event, and then hands the frame to its handler; a listener ends only
\* at its test of the flag.
C25_CooperativeCancel ==
    [][ \A i \in DOMAIN listeners \cap DOMAIN listeners' :
          /\ listeners[i].pc = "recv" =>
                \/ listeners'[i].pc = "recv" /\ listeners'[i].msg = listeners[i].msg
                \/ /\ inbox # <<>> /\ inbox' = Tail(inbox)
                   /\ listeners'[i].pc = "sleep" /\ listeners'[i].msg = Head(inbox)
          /\ (Alive(listeners[i]) /\ ~Alive(listeners'[i])) =>
                /\ listeners[i].pc = "check" /\ listeners'[i].pc = "done"
                /\ ~subscriptions[listeners[i].event]
      ]_vars

\* C25, its case: a listener is blocked in recv() after the flag of its event was
\* cleared, and no frame is there
C25_BlockedAfterClear ==
    \E i \in DOMAIN listeners :
        listeners[i].pc = "recv" /\ ~subscriptions[listeners[i].event] /\ inbox = <<>>

\* C26: the handler registered for event E is called only with frames of event E.
C26_RightCallback ==
    \A i \in DOMAIN listeners :
        listeners[i].msg.kind = "event" => listeners[i].msg.messageType = listeners[i].event

\* C27: a listener goes from its test of the flag to one recv(), from the frame it
\* received to one call of the handler with that frame and the pause, and from the
\* pause back to the test; the frame it holds changes at no other step.
C27_OneAtATime ==
    [][ \A i \in DOMAIN listeners \cap DOMAIN listeners' :
          LET l == listeners[i]
              m == listeners'[i] IN
          IF l.pc = m.pc THEN m.msg = l.msg
          ELSE \/ /\ l.pc = "check" /\ m.pc = "recv" /\ subscriptions[l.event]
                  /\ inbox' = inbox /\ m.msg = NoFrame
               \/ /\ l.pc = "check" /\ m.pc = "done" /\ ~subscriptions[l.event]
                  /\ inbox' = inbox
               \/ /\ l.pc = "recv" /\ m.pc = "sleep" /\ inbox # <<>>
                  /\ inbox' = Tail(inbox) /\ m.msg = Head(inbox)
               \/ /\ l.pc = "sleep" /\ m.pc = "check" /\ inbox' = inbox /\ m.msg = NoFrame
      ]_vars

\* C27, its case: a listener has handed an event frame to its handler and pauses
C27_HandledOne ==
    \E i \in DOMAIN listeners :
        listeners[i].pc = "sleep" /\ listeners[i].msg.kind = "event"

\* C28: a listener pauses 0.05 s if its event is ModelOutlineEvent and 1 s if it is
\* any other.
C28_PauseByEvent ==
    \A i \in DOMAIN listeners :
        IF listeners[i].pc # "sleep" THEN listeners[i].pause = 0
        ELSE (listeners[i].event = "ModelOutlineEvent" /\ listeners[i].pause = 5)
             \/ (listeners[i].event # "ModelOutlineEvent" /\ listeners[i].pause = 100)

\* C28, its case: the listener of ModelOutlineEvent pauses 0.05 s
C28_ShortPause ==
    \E i \in DOMAIN listeners :
        /\ listeners[i].event = "ModelOutlineEvent"
        /\ listeners[i].pc = "sleep" /\ listeners[i].pause = 5

\* the token the session adopted at construction
Adopted == IF ctor.hadFile THEN store[1] ELSE ctor.frame.data.authenticationToken

\* C29: authenticate sends one AuthenticationRequest whose data is the name, developer
\* and logo the session was constructed with and the token it adopted, and neither its
\* send nor its end changes the session's token or the token file.
C29_Authenticate ==
    [][ \A c \in Callers :
          /\ (pc[c] = "idle" /\ pc'[c] = "recv" /\ call'[c].op = "authenticate") =>
                /\ nsent' = nsent + 1
                /\ Len(pending') = Len(pending) + 1
                /\ pending'[Len(pending')].messageType = "AuthenticationRequest"
                /\ pending'[Len(pending')].data =
                      [pluginName |-> SessionIdentity(gen).name,
                       pluginDeveloper |-> SessionIdentity(gen).developer,
                       pluginLogo |-> SessionIdentity(gen).logo,
                       authenticationToken |-> Adopted]
                /\ auth_token' = auth_token /\ store' = store
          /\ (pc[c] = "recv" /\ call[c].op = "authenticate" /\ pc'[c] = "idle") =>
                (auth_token' = auth_token /\ store' = store /\ nsent' = nsent)
      ]_vars

\* C29, its case: the second session has sent its AuthenticationRequest, with its logo
\* and the token of the file
C29_Sent ==
    /\ pending # <<>>
    /\ pending[Len(pending)].messageType = "AuthenticationRequest"
    /\ pending[Len(pending)].data.pluginLogo = "png"
    /\ pending[Len(pending)].data.authenticationToken = Token(1)

\* C30: the token of a constructed session is a string, the content of the token file.
C30_TokenIsStoredString ==
    state = "ready" =>
        /\ store # <<>>
        /\ auth_token = store[1]
        /\ auth_token[1] = "tok"

\* C31: a session constructed while the token file exists adopts the content of the
\* file as it is, the empty string included, and sends no frame; a session constructed
\* while the file does not exist sends the token request, and no token request is sent
\* while the file exists.
C31_AdoptsVerbatim ==
    [][ /\ (gen' = gen + 1 /\ store # <<>>) =>
              /\ state' = "ready" /\ auth_token' = store[1] /\ store' = store
              /\ pending' = <<>> /\ nsent' = 0 /\ inbox' = <<>>
        /\ (gen' = gen + 1 /\ store = <<>>) =>
              /\ state' = "authenticating" /\ nsent' = 1 /\ Len(pending') = 1
              /\ pending'[1].messageType = "AuthenticationTokenRequest"
        /\ (nsent' = nsent + 1 \/ gen' = gen + 1) =>
              \A k \in DOMAIN pending' :
                  pending'[k].messageType = "AuthenticationTokenRequest" =>
                      (store = <<>> \/ (k \in DOMAIN pending /\ pending[k] = pending'[k]))
      ]_vars

\* C31, its case: the session adopted the empty content of the token file and sent
\* nothing
C31_EmptyAdopted ==
    /\ state = "ready" /\ ctor.hadFile /\ nsent = 0
    /\ store = << <<>> >> /\ auth_token = <<>>

\* unsubscribe_from_event was called with the event of listener i and returned, and
\* subscribe_to_event then started another listener of that event
Resubscribed(i) ==
    /\ listeners[i].unsub /\ ~refused
    /\ \E j \in DOMAIN listeners :
          j > i /\ listeners[j].event = listeners[i].event /\ ~listeners[j].unsub

\* C32: after subscribe(E, h1), unsubscribe(E) and subscribe(E, h2) the listener of the
\* first subscription hands no frame to h1 any more.
C32_OldHandlerSilent ==
    [][ \A i \in DOMAIN listeners \cap DOMAIN listeners' :
          Resubscribed(i) => ~(listeners[i].pc = "recv" /\ listeners'[i].pc = "sleep")
      ]_vars

\* C33: the frames of a construction are token requests only, and on a constructed
\* session every typed operation can be sent whatever was called before; an operation
\* that is rejected raises from the APIError frame it received.
C33_NoClientGate ==
    /\ state = "authenticating" =>
          \A k \in DOMAIN pending : pending[k].messageType = "AuthenticationTokenRequest"
    /\ (state = "ready" /\ ncalls = 0) => (pending = <<>> /\ nsent <= 1)
    /\ \A c \in Callers, op \in TypedOps :
          (state = "ready" /\ pc[c] = "idle" /\ ncalls < MaxCalls) =>
              ENABLED call_send(c, op, <<>>, "", MaxCalls)
    /\ last.kind = "raise" => last.frame.messageType = "APIError"

\* C33, its case: get_stats, the only call of its session, was sent and answered
C33_UnauthenticatedCall ==
    /\ state = "ready" /\ ncalls = 1
    /\ last.op = "get_stats" /\ last.kind \in {"return", "raise"} /\ last.sends = 1

====
